---------------------------- MODULE Spec2Model ----------------------------
(***************************************************************************)
(* A model of two parts of the redash client:                              *)
(*                                                                         *)
(*   - updateData (client/app/visualizations/chart/plotly/updateData.js),  *)
(*     the pass that turns the series prepared from a query result into    *)
(*     the arrays handed to Plotly: percent values, the unified x axis,    *)
(*     stacking and the text labels;                                       *)
(*   - VisualizationWidget.refreshWidget (client/app/components/           *)
(*     dashboards/dashboard-widget/VisualizationWidget.jsx), the guard     *)
(*     around the refresh load of a dashboard widget.                      *)
(*                                                                         *)
(* Scope.  options.textFormat is '' (the two default text formatters),     *)
(* options.seriesOptions is empty (every series has the global type, and   *)
(* none is a bubble or scatter series), and no point has a size.  The code *)
(* that builds the series from the query result, the number formatters and *)
(* the Parameters component are outside the two files modelled.            *)
(*                                                                         *)
(* Numbers.  A JavaScript value that can sit in an output array is a       *)
(* triple <<kind, n, d>>: <<"num", n, d>> is the rational n/d in lowest    *)
(* terms with d > 0, and NaN, Null and Undefined are the three other       *)
(* values the code produces.  The arithmetic is exact: the model does not  *)
(* round as IEEE doubles do, so "equals 100" below is the exact statement  *)
(* of what the code computes up to floating-point rounding.                *)
(***************************************************************************)
EXTENDS Integers, Sequences, FiniteSets, TLC

VARIABLES
    seriesList,     \* the series objects updateData is called on (caller order)
    options,        \* the options object of the calls
    calls,          \* how many times updateData(seriesList, options) has returned
    unified,        \* history: the last call's updateUnifiedXAxisValues pass
    refreshClickButtonId,   \* VisualizationWidget: this.state.refreshClickButtonId
    loads,          \* VisualizationWidget: the widget.load() promises not yet settled
    started,        \* VisualizationWidget: how many widget.load() calls were made
    props,          \* VisualizationWidget: isPublic and whether Parameters is rendered
    queryResult     \* VisualizationWidget: the status of widget.getQueryResult()

chartVars  == <<seriesList, options, calls, unified>>
widgetVars == <<refreshClickButtonId, loads, started, props, queryResult>>
vars       == <<seriesList, options, calls, unified,
                refreshClickButtonId, loads, started, props, queryResult>>

---------------------------------------------------------------------------
(* Bounds of the model. *)

\* updateData is called at most this many times on the same series objects.
MaxCalls == 2
\* A query result has at most this many rows (points over all the series).
MaxRows == 4
\* The widget makes at most this many widget.load() calls.
MaxLoads == 3

SeriesNames == <<"A", "B", "C">>
NumSeries   == Len(SeriesNames)
XValues     == {1, 2}

---------------------------------------------------------------------------
(* JavaScript values and the arithmetic the code does on them. *)

NaN       == <<"NaN", 0, 0>>
Null      == <<"null", 0, 0>>
Undefined == <<"undefined", 0, 0>>

Abs(n) == IF n < 0 THEN 0 - n ELSE n

RECURSIVE GCD(_, _)
GCD(a, b) == IF b = 0 THEN a ELSE GCD(b, a % b)

\* The number n/d; a division by zero here is always 0/0 (see PercentOf).
Rat(n, d) ==
    IF d = 0 THEN NaN
    ELSE LET s == IF d < 0 THEN 0 - 1 ELSE 1
             g == GCD(Abs(n), Abs(d))
         IN  <<"num", (s * n) \div g, (s * d) \div g>>

Num(n) == <<"num", n, 1>>

IsNum(v) == v[1] = "num"

\* ToNumber: null is 0, undefined is NaN.
ToNumber(v) ==
    CASE v[1] = "num"       -> v
      [] v[1] = "null"      -> Num(0)
      [] OTHER              -> NaN

\* a + b on two values that are numbers, null or undefined.
Add(a, b) ==
    LET p == ToNumber(a)
        q == ToNumber(b)
    IN  IF IsNum(p) /\ IsNum(q)
        THEN Rat(p[2] * q[3] + q[2] * p[3], p[3] * q[3])
        ELSE NaN

\* Math.abs(v).
MathAbs(v) ==
    LET p == ToNumber(v)
    IN  IF IsNum(p) THEN Rat(Abs(p[2]), p[3]) ELSE NaN

\* item.y / sum * 100 (updatePercentValues, line 98).  sum is a sum of |y|
\* that includes |item.y|, so sum = 0 only with item.y = 0, and 0 / 0 is NaN.
PercentOf(y, sum) == Rat(100 * y, sum)


---------------------------------------------------------------------------
(* Strings.  A formatted string is the sequence of its parts; a part is a   *)
(* triple like a value: a formatted number keeps the number it was made     *)
(* from, tagged with the formatter that made it, and a literal is tagged    *)
(* <<"lit:...", 0, 0>>; an undefined token stays Undefined (the text        *)
(* "undefined").  The formatters themselves (createNumberFormatter of       *)
(* lib/value-format) are outside this model.  " +- " stands for " \u00B1 ". *)

Lit(s) == <<"lit:" \o s, 0, 0>>

\* formatNumber = createNumberFormatter(options.numberFormat)
formatNumber(v) == <<"number:" \o v[1], v[2], v[3]>>

\* formatPercent = createNumberFormatter(options.percentFormat)
formatPercent(v) == <<"percent:" \o v[1], v[2], v[3]>>

defaultFormatSeriesText(item) ==
    LET r0 == <<item.y>>
        r1 == IF item.yError # Undefined
              THEN r0 \o <<Lit(" +- "), item.yError>> ELSE r0
        r2 == IF item.yPercent # Undefined
              THEN <<item.yPercent, Lit(" (")>> \o r1 \o <<Lit(")")>> ELSE r1
        r3 == IF item.size # Undefined
              THEN r2 \o <<Lit(": "), item.size>> ELSE r2
    IN  r3

defaultFormatSeriesTextForPie(item) ==
    <<item.yPercent, Lit(" ("), item.y, Lit(")")>>

\* options.textFormat is '' in this model: the two default formatters.
createTextFormatter(opts, item) ==
    IF opts.globalSeriesType = "pie"
    THEN defaultFormatSeriesTextForPie(item)
    ELSE defaultFormatSeriesText(item)

---------------------------------------------------------------------------
(* sourceData: a Map from x to the point, in insertion order.  It is the    *)
(* sequence of its points; the key of a point is its x.                     *)

HasPoint(sourceData, x) == \E i \in 1..Len(sourceData) : sourceData[i].x = x

GetPoint(sourceData, x) ==
    sourceData[CHOOSE i \in 1..Len(sourceData) : sourceData[i].x = x]

Keys(sourceData) == [i \in 1..Len(sourceData) |-> sourceData[i].x]

---------------------------------------------------------------------------
(* updateSeriesText *)

\* The token bag of one x of one series (lines 53-74) and its text.
SeriesTextAt(series, opts, x) ==
    LET absent == [name |-> series.name, x |-> Undefined, y |-> Undefined,
                   yError |-> Undefined, size |-> Undefined,
                   yPercent |-> Undefined]
        item == GetPoint(series.sourceData, x)
        bag  == IF HasPoint(series.sourceData, x)
                THEN [name     |-> series.name,
                      x        |-> Num(item.x),
                      y        |-> formatNumber(Num(item.y)),
                      yError   |-> IF item.yError # Undefined
                                   THEN formatNumber(item.yError) ELSE Undefined,
                      size     |-> IF item.size # Undefined
                                   THEN formatNumber(item.size) ELSE Undefined,
                      yPercent |-> IF opts.percentValues \/ opts.globalSeriesType = "pie"
                                   THEN formatPercent(MathAbs(item.yPercent))
                                   ELSE Undefined]
                ELSE absent
    IN  createTextFormatter(opts, bag)

updateSeriesTextOf(series, opts) ==
    LET xValues == IF opts.globalSeriesType = "pie" THEN series.labels ELSE series.x
    IN  [series EXCEPT
           !.text  = [i \in 1..Len(xValues) |-> SeriesTextAt(series, opts, xValues[i])],
           !.hover = <<>>]

updateSeriesText(list, opts) ==
    [k \in 1..Len(list) |-> updateSeriesTextOf(list[k], opts)]

---------------------------------------------------------------------------
(* updatePercentValues *)

RECURSIVE SumAbsY_Signed(_, _)
\* SumAbsY without the Math.abs: sum + item.y.
SumAbsY_Signed(sourceData, x) ==
    IF sourceData = <<>> THEN 0
    ELSE (IF Head(sourceData).x = x THEN Head(sourceData).y ELSE 0)
         + SumAbsY_Signed(Tail(sourceData), x)

RECURSIVE SumAbsY(_, _)
\* The sum of |item.y| over the points of sourceData whose x is x.
SumAbsY(sourceData, x) ==
    IF sourceData = <<>> THEN 0
    ELSE (IF Head(sourceData).x = x THEN Abs(Head(sourceData).y) ELSE 0)
         + SumAbsY(Tail(sourceData), x)

RECURSIVE sumOfCorrespondingPoints(_, _)
\* sumOfCorrespondingPoints.get(x) after the first loop (lines 85-91).
sumOfCorrespondingPoints(list, x) ==
    IF list = <<>> THEN 0
    ELSE SumAbsY(Head(list).sourceData, x) + sumOfCorrespondingPoints(Tail(list), x)

\* The second loop (lines 93-103) on one series.
updatePercentValuesOf(series, list) ==
    LET sd == [i \in 1..Len(series.sourceData) |->
                 LET item == series.sourceData[i]
                 IN  [item EXCEPT !.yPercent =
                        PercentOf(item.y, sumOfCorrespondingPoints(list, item.x))]]
    IN  [series EXCEPT !.sourceData = sd,
                       !.y = [i \in 1..Len(sd) |-> sd[i].yPercent]]

updatePercentValues(list, opts) ==
    IF opts.percentValues
    THEN [k \in 1..Len(list) |-> updatePercentValuesOf(list[k], list)]
    ELSE list

---------------------------------------------------------------------------
(* getUnifiedXAxisValues and updateUnifiedXAxisValues *)

\* set.add(x): a Set keeps insertion order and ignores a value it holds.
SetAdd(set, x) ==
    IF \E i \in 1..Len(set) : set[i] = x THEN set ELSE Append(set, x)

RECURSIVE SetAddAll(_, _)
SetAddAll(set, xs) ==
    IF xs = <<>> THEN set ELSE SetAddAll(SetAdd(set, Head(xs)), Tail(xs))

RECURSIVE CollectX(_, _)
\* Lines 108-114: every series' item.x, series by series, in Map order.
CollectX(set, list) ==
    IF list = <<>> THEN set
    ELSE CollectX(SetAddAll(set, Keys(Head(list).sourceData)), Tail(list))

RECURSIVE InsertSorted(_, _)
\* x put into an ascending sequence, after the values equal to it.
InsertSorted(x, sorted) ==
    IF sorted = <<>> THEN <<x>>
    ELSE IF x < Head(sorted) THEN <<x>> \o sorted
    ELSE <<Head(sorted)>> \o InsertSorted(x, Tail(sorted))

RECURSIVE sortBy(_)
\* lodash sortBy(result, identity) on numbers: a stable ascending sort.
sortBy(xs) ==
    IF xs = <<>> THEN <<>>
    ELSE InsertSorted(xs[Len(xs)], sortBy(SubSeq(xs, 1, Len(xs) - 1)))

\* getUnifiedXAxisValues that returns result without sorting it.
getUnifiedXAxisValues_Unsorted(list, sorted) == CollectX(<<>>, list)

getUnifiedXAxisValues(list, sorted) ==
    LET result == CollectX(<<>>, list)
    IN  IF sorted THEN sortBy(result) ELSE result

\* updateUnifiedXAxisValuesOf without the else branch's push to
\* error_y.array: only the points found add an error value.
updateUnifiedXAxisValuesOf_NoErrorFill(series, opts, defaultY, unifiedX) ==
    LET has(i)  == HasPoint(series.sourceData, unifiedX[i])
        item(i) == GetPoint(series.sourceData, unifiedX[i])
        found   == SelectSeq(unifiedX, LAMBDA x : HasPoint(series.sourceData, x))
    IN  [series EXCEPT
           !.x = unifiedX,
           !.y = [i \in 1..Len(unifiedX) |->
                    IF has(i)
                    THEN (IF opts.percentValues THEN item(i).yPercent
                                                ELSE Num(item(i).y))
                    ELSE defaultY],
           !.error_y = [i \in 1..Len(found) |->
                          GetPoint(series.sourceData, found[i]).yError]]

\* updateUnifiedXAxisValuesOf that leaves a series alone when its x is
\* already the unified x.
updateUnifiedXAxisValuesOf_KeepIfUnified(series, opts, defaultY, unifiedX) ==
    LET has(i)  == HasPoint(series.sourceData, unifiedX[i])
        item(i) == GetPoint(series.sourceData, unifiedX[i])
    IN  IF series.x = unifiedX THEN series
        ELSE [series EXCEPT
           !.x = unifiedX,
           !.y = [i \in 1..Len(unifiedX) |->
                    IF has(i)
                    THEN (IF opts.percentValues THEN item(i).yPercent
                                                ELSE Num(item(i).y))
                    ELSE defaultY],
           !.error_y = [i \in 1..Len(unifiedX) |->
                          IF has(i) THEN item(i).yError ELSE Null]]

\* Lines 129-142 on one series.
updateUnifiedXAxisValuesOf(series, opts, defaultY, unifiedX) ==
    LET has(i)  == HasPoint(series.sourceData, unifiedX[i])
        item(i) == GetPoint(series.sourceData, unifiedX[i])
    IN  [series EXCEPT
           !.x = unifiedX,
           !.y = [i \in 1..Len(unifiedX) |->
                    IF has(i)
                    THEN (IF opts.percentValues THEN item(i).yPercent
                                                ELSE Num(item(i).y))
                    ELSE defaultY],
           !.error_y = [i \in 1..Len(unifiedX) |->
                          IF has(i) THEN item(i).yError ELSE Null]]

\* updateUnifiedXAxisValues that ignores its third argument: the fill is
\* always null.
updateUnifiedXAxisValues_NullFill(list, opts, defaultY) ==
    LET unifiedX == getUnifiedXAxisValues(list, opts.sortX)
    IN  [k \in 1..Len(list) |->
           updateUnifiedXAxisValuesOf(list[k], opts, Null, unifiedX)]

\* defaultY is Undefined when the caller passes no third argument.
updateUnifiedXAxisValues(list, opts, defaultY) ==
    LET unifiedX == getUnifiedXAxisValues(list, opts.sortX)
        fillY    == IF defaultY = Undefined THEN Null ELSE defaultY
    IN  [k \in 1..Len(list) |->
           updateUnifiedXAxisValuesOf(list[k], opts, fillY, unifiedX)]

---------------------------------------------------------------------------
(* The pipelines.  Each returns the series it was given as they are when it *)
(* ends (list) and, for the history variable, what the unification pass     *)
(* left if it ran (pass).                                                   *)

NoPass == [ran |-> FALSE, defaultY |-> Undefined, list |-> <<>>]

RECURSIVE StackOnto_PrevUnstacked(_, _)
\* StackOnto that adds the previous series' own values, not its sums.
StackOnto_PrevUnstacked(prevY, rest) ==
    IF rest = <<>> THEN <<>>
    ELSE LET series == Head(rest)
             y == [i \in 1..Len(series.y) |-> Add(prevY[i], series.y[i])]
         IN  <<[series EXCEPT !.y = y]>> \o StackOnto_PrevUnstacked(series.y, Tail(rest))

RECURSIVE StackOnto(_, _)
\* Lines 158-163 from the second series on: prevSeries.y is the y the
\* previous iteration assigned.
StackOnto(prevY, rest) ==
    IF rest = <<>> THEN <<>>
    ELSE LET series == Head(rest)
             y == [i \in 1..Len(series.y) |-> Add(prevY[i], series.y[i])]
         IN  <<[series EXCEPT !.y = y]>> \o StackOnto(y, Tail(rest))

\* Lines 157-163: the cumulative value for each x tick.
StackSeries(list) ==
    IF list = <<>> THEN <<>>
    ELSE <<Head(list)>> \o StackOnto(Head(list).y, Tail(list))

useUnifiedXAxis(opts) ==
    opts.sortX /\ opts.xAxisType = "category" /\ opts.globalSeriesType # "box"

updatePieData(list, opts) ==
    [list |-> updateSeriesText(list, opts), pass |-> NoPass]

updateLineAreaData(list, opts) ==
    LET percent == updatePercentValues(list, opts)
    IN  IF opts.stacking
        THEN LET u == updateUnifiedXAxisValues(percent, opts, Num(0))
             IN  [list |-> updateSeriesText(StackSeries(u), opts),
                  pass |-> [ran |-> TRUE, defaultY |-> Num(0), list |-> u]]
        ELSE IF useUnifiedXAxis(opts)
        THEN LET u == updateUnifiedXAxisValues(percent, opts, Undefined)
             IN  [list |-> updateSeriesText(u, opts),
                  pass |-> [ran |-> TRUE, defaultY |-> Undefined, list |-> u]]
        ELSE [list |-> updateSeriesText(percent, opts), pass |-> NoPass]

updateDefaultData(list, opts) ==
    LET percent == updatePercentValues(list, opts)
    IN  IF ~opts.stacking /\ useUnifiedXAxis(opts)
        THEN LET u == updateUnifiedXAxisValues(percent, opts, Undefined)
             IN  [list |-> updateSeriesText(u, opts),
                  pass |-> [ran |-> TRUE, defaultY |-> Undefined, list |-> u]]
        ELSE [list |-> updateSeriesText(percent, opts), pass |-> NoPass]

\* VisibleIndexes without the filter: every series is kept.
VisibleIndexes_All(list, i) == [k \in 1..(Len(list) + 1 - i) |-> i + k - 1]

RECURSIVE VisibleIndexes(_, _)
\* filter(seriesList, s => s.visible === true), as the indexes it keeps
\* (from index i on).
VisibleIndexes(list, i) ==
    IF i > Len(list) THEN <<>>
    ELSE (IF list[i].visible = TRUE THEN <<i>> ELSE <<>>)
         \o VisibleIndexes(list, i + 1)

\* The visible series of a list, in the list's order.
Visible(list) ==
    LET idx == VisibleIndexes(list, 1)
    IN  [k \in 1..Len(idx) |-> list[idx[k]]]

\* The switch of updateData on the visible series.
Dispatch(visibleSeriesList, opts) ==
    IF visibleSeriesList = <<>>
    THEN [list |-> visibleSeriesList, pass |-> NoPass]
    ELSE CASE opts.globalSeriesType = "pie" -> updatePieData(visibleSeriesList, opts)
           [] opts.globalSeriesType \in {"line", "area"} ->
                  updateLineAreaData(visibleSeriesList, opts)
           [] opts.globalSeriesType = "heatmap" ->
                  [list |-> visibleSeriesList, pass |-> NoPass]
           [] OTHER -> updateDefaultData(visibleSeriesList, opts)

\* updateData(seriesList, options): the passes work on the series objects
\* themselves, so the list returned holds the visible series as the passes
\* left them and the others as they were.
updateData(list, opts) ==
    LET idx == VisibleIndexes(list, 1)
        \* (the singleton makes TLC evaluate the passes once)
        out == CHOOSE result \in {Dispatch(Visible(list), opts)} : TRUE
    IN  [list |-> [i \in 1..Len(list) |->
                     IF \E k \in 1..Len(idx) : idx[k] = i
                     THEN out.list[CHOOSE k \in 1..Len(idx) : idx[k] = i]
                     ELSE list[i]],
         pass |-> out.pass]

---------------------------------------------------------------------------
(* The series a call is made on.  The code that prepares them from a query *)
(* result is outside this model: a series arrives with x (labels for a pie),*)
(* y and error_y.array parallel to the keys of its sourceData, no text, and *)
(* points that carry no yPercent yet.                                       *)

\* The y column of the table the query reads, by series and x: both signs
\* meet at an x, two of them cancel, and one row is 0.
RowY == <<[x \in XValues |-> IF x = 1 THEN 1 ELSE 0 - 1],
          [x \in XValues |-> IF x = 1 THEN 0 - 1 ELSE 2],
          [x \in XValues |-> IF x = 1 THEN 0 ELSE 1]>>

\* The point of a row: its yError column is empty on the rows with a
\* negative y and holds x elsewhere; no row has a size.
NewPoint(x, y) ==
    [x |-> x, y |-> y,
     yError   |-> IF y < 0 THEN Undefined ELSE Num(x),
     size     |-> Undefined,
     yPercent |-> Undefined]

\* The orders in which a series may have received its x values.
KeyOrders ==
    {ks \in UNION {[1..n -> XValues] : n \in 0..Cardinality(XValues)} :
        \A i, j \in 1..Len(ks) : i # j => ks[i] # ks[j]}

\* The sourceData the i-th series may arrive with: any of its rows, in any
\* order.
SourceDatas(i) ==
    {[n \in 1..Len(ks) |-> NewPoint(ks[n], RowY[i][ks[n]])] : ks \in KeyOrders}

NewSeries(name, visible, sourceData) ==
    [name       |-> name,
     visible    |-> visible,
     sourceData |-> sourceData,
     x          |-> Keys(sourceData),
     labels     |-> Keys(sourceData),
     y          |-> [i \in 1..Len(sourceData) |-> Num(sourceData[i].y)],
     error_y    |-> [i \in 1..Len(sourceData) |-> sourceData[i].yError],
     text       |-> <<>>,
     hover      |-> <<>>]

SeriesTypes == {"pie", "line", "area", "heatmap", "column", "box"}

OptionsSet ==
    [globalSeriesType : SeriesTypes,
     percentValues    : BOOLEAN,
     stacking         : BOOLEAN,
     sortX            : BOOLEAN,
     xAxisType        : {"category", "linear"}]

RECURSIVE TotalRows(_)
TotalRows(sds) ==
    IF sds = <<>> THEN 0 ELSE Len(Head(sds)) + TotalRows(Tail(sds))

ChartInit ==
    /\ \E sds \in [1..NumSeries -> UNION {SourceDatas(i) : i \in 1..NumSeries}],
          vis \in [1..NumSeries -> BOOLEAN] :
          /\ \A i \in 1..NumSeries : sds[i] \in SourceDatas(i)
          /\ TotalRows(sds) <= MaxRows
          /\ seriesList = [i \in 1..NumSeries |->
                             NewSeries(SeriesNames[i], vis[i], sds[i])]
    /\ options \in OptionsSet
    /\ calls = 0
    /\ unified = NoPass

\* The chart as the widget model holds it: nothing drawn yet.
ChartIdle ==
    /\ seriesList = <<>>
    /\ options = [globalSeriesType |-> "heatmap", percentValues |-> FALSE,
                  stacking |-> FALSE, sortX |-> FALSE, xAxisType |-> "linear"]
    /\ calls = 0
    /\ unified = NoPass

\* updateData(seriesList, options) is called, and returns.
UpdateData ==
    /\ calls < MaxCalls
    /\ \E out \in {updateData(seriesList, options)} :
           /\ seriesList' = out.list
           /\ unified' = out.pass
    /\ calls' = calls + 1
    /\ UNCHANGED options
    /\ UNCHANGED widgetVars

---------------------------------------------------------------------------
(* VisualizationWidget.  Each action is one event handler run to its end,  *)
(* with the setState it makes applied before the next event.               *)

\* What Parameters may hand to onValuesChange: the component is outside
\* this model, and calls it with no argument or with the changed parameters.
ValuesChangeArguments == {"undefined", "parameters"}

\* !value
Falsy(value) == value \in {"null", "undefined"}

WidgetProps == [isPublic : BOOLEAN, restricted : BOOLEAN, localParameters : BOOLEAN]

WidgetInit ==
    /\ refreshClickButtonId = "null"
    /\ loads = {}
    /\ started = 0
    /\ props \in WidgetProps
    /\ queryResult = "none"

\* The widget as the chart model holds it: not mounted.
WidgetIdle ==
    /\ refreshClickButtonId = "null"
    /\ loads = {}
    /\ started = 0
    /\ props = [isPublic |-> FALSE, restricted |-> FALSE, localParameters |-> FALSE]
    /\ queryResult = "none"

\* loadWidget(refresh): widget.load(refresh, maxAge) returns a promise.
loadWidget(refresh) ==
    /\ started < MaxLoads
    /\ started' = started + 1
    /\ loads' = loads \cup {[id |-> started + 1, refresh |-> refresh]}

componentDidMount ==
    /\ started = 0
    /\ loadWidget(FALSE)
    /\ UNCHANGED <<refreshClickButtonId, props, queryResult>>
    /\ UNCHANGED chartVars

refreshWidget(buttonId) ==
    IF Falsy(refreshClickButtonId)
    THEN /\ refreshClickButtonId' = buttonId
         /\ loadWidget(TRUE)
    ELSE UNCHANGED <<refreshClickButtonId, loads, started>>

\* A click on one of the two refresh buttons renderBottom renders.
ClickRefresh(buttonId) ==
    /\ started > 0
    /\ ~props.restricted
    /\ ~props.isPublic
    /\ buttonId = "1" => queryResult # "none"
    /\ refreshWidget(buttonId)
    /\ UNCHANGED <<props, queryResult>>
    /\ UNCHANGED chartVars

\* Parameters calls onValuesChange, which is this.refreshWidget.
OnValuesChange(argument) ==
    /\ started > 0
    /\ ~props.restricted
    /\ props.localParameters
    /\ refreshWidget(argument)
    /\ UNCHANGED <<props, queryResult>>
    /\ UNCHANGED chartVars

\* A widget.load() promise settles; a refresh load's finally() resets the
\* state.
LoadSettles(load, status) ==
    /\ load \in loads
    /\ loads' = loads \ {load}
    /\ queryResult' = status
    /\ refreshClickButtonId' = IF load.refresh THEN "null" ELSE refreshClickButtonId
    /\ UNCHANGED <<started, props>>
    /\ UNCHANGED chartVars

---------------------------------------------------------------------------
(* The specifications *)

Init == ChartInit /\ WidgetIdle

Next == UpdateData

Spec == Init /\ [][Next]_vars

WidgetModelInit == ChartIdle /\ WidgetInit

WidgetNext ==
    \/ componentDidMount
    \/ \E buttonId \in {"1", "2"} : ClickRefresh(buttonId)
    \/ \E argument \in ValuesChangeArguments : OnValuesChange(argument)
    \/ \E load \in loads, status \in {"done", "failed"} : LoadSettles(load, status)

SpecWidget == WidgetModelInit /\ [][WidgetNext]_vars

---------------------------------------------------------------------------
(* What the properties below talk about, computed from the state alone.    *)

\* The indexes of the series whose visible is true.
VisIdx == {i \in 1..Len(seriesList) : seriesList[i].visible = TRUE}

RECURSIVE SumInt(_, _)
SumInt(f, S) ==
    IF S = {} THEN 0
    ELSE LET j == CHOOSE j \in S : TRUE IN f[j] + SumInt(f, S \ {j})

RECURSIVE SumVal(_, _)
SumVal(f, S) ==
    IF S = {} THEN Num(0)
    ELSE LET j == CHOOSE j \in S : TRUE IN Add(f[j], SumVal(f, S \ {j}))

\* The visible series that have a point at x.
VisAt(x) == {i \in VisIdx : HasPoint(seriesList[i].sourceData, x)}

\* The x values of the visible series' points.
VisX == {x \in XValues : VisAt(x) # {}}

\* The sum of |y| over the visible series' points at x.
VisAbsSum(x) ==
    SumInt([i \in VisAt(x) |-> Abs(GetPoint(seriesList[i].sourceData, x).y)], VisAt(x))

\* updateData has run its passes: a call returned, on at least one visible
\* series, for a chart that is not a heatmap.
Updated == calls >= 1 /\ VisIdx # {} /\ options.globalSeriesType # "heatmap"

\* updatePercentValues has run.
PercentRan ==
    Updated /\ options.percentValues /\ options.globalSeriesType # "pie"

\* The stacking of a line or area chart has run.
StackRan ==
    Updated /\ options.stacking /\ options.globalSeriesType \in {"line", "area"}

\* The value a series plots at x before any stacking.
Unstacked(series, x) ==
    IF HasPoint(series.sourceData, x)
    THEN (IF options.percentValues
          THEN GetPoint(series.sourceData, x).yPercent
          ELSE Num(GetPoint(series.sourceData, x).y))
    ELSE Num(0)

---------------------------------------------------------------------------
(* C1.  After updateData on a chart that is not a heatmap, the output      *)
(* arrays of every visible series are parallel: x (labels for a pie), y,   *)
(* error_y.array and text have the same length.                            *)
C1_ParallelArrays ==
    Updated =>
        \A i \in VisIdx :
            LET s  == seriesList[i]
                xs == IF options.globalSeriesType = "pie" THEN s.labels ELSE s.x
            IN  /\ Len(xs) = Len(s.y)
                /\ Len(s.y) = Len(s.error_y)
                /\ Len(s.error_y) = Len(s.text)

\* A visible series the unification made longer than its own data, in
\* percent mode, with its four arrays at that length.
C1_Witness ==
    /\ Updated /\ unified.ran /\ options.percentValues
    /\ \E i \in VisIdx :
          /\ Len(seriesList[i].sourceData) = 1
          /\ Len(seriesList[i].x) = 2
          /\ Len(seriesList[i].text) = 2

(* C2, as stated.  In percent mode, at every x where the visible series    *)
(* have a point and the sum of |y| is not zero, the yPercent of the        *)
(* visible series' points at that x add up to 100.                         *)
C2_PercentSumIs100 ==
    PercentRan =>
        \A x \in VisX :
            VisAbsSum(x) # 0 =>
                SumVal([i \in VisAt(x) |-> GetPoint(seriesList[i].sourceData, x).yPercent],
                       VisAt(x)) = Num(100)

(* C2, amended.  In percent mode, at every x where the visible series have *)
(* a point and the sum of |y| is not zero, every such point's yPercent is  *)
(* a number and the absolute values |yPercent| add up to 100.              *)
C2_AbsPercentSumIs100 ==
    PercentRan =>
        \A x \in VisX :
            VisAbsSum(x) # 0 =>
                /\ \A i \in VisAt(x) : IsNum(GetPoint(seriesList[i].sourceData, x).yPercent)
                /\ SumVal([i \in VisAt(x) |->
                             MathAbs(GetPoint(seriesList[i].sourceData, x).yPercent)],
                          VisAt(x)) = Num(100)

\* Percent mode with a negative and a positive y at the same x.
C2_Witness ==
    /\ PercentRan
    /\ \E x \in VisX : \E i, j \in VisAt(x) :
          /\ GetPoint(seriesList[i].sourceData, x).y < 0
          /\ GetPoint(seriesList[j].sourceData, x).y > 0
          /\ GetPoint(seriesList[i].sourceData, x).yPercent = Rat(0 - 100, 2)

(* C3.  On a stacked line or area chart, the y of every visible series is, *)
(* at every index of its x array, the sum of the unstacked values at that  *)
(* x of the visible series up to and including it, in caller order; so the *)
(* first visible series keeps its unstacked values.                        *)
C3_StackIsCumulative ==
    StackRan =>
        \A i \in VisIdx :
            LET s == seriesList[i]
                upTo == {j \in VisIdx : j <= i}
            IN  /\ Len(s.y) = Len(s.x)
                /\ \A n \in 1..Len(s.x) :
                      s.y[n] = SumVal([j \in upTo |-> Unstacked(seriesList[j], s.x[n])], upTo)

\* Three visible series with a point at the same x: the third one's y
\* there is the sum of the three.
C3_Witness ==
    /\ StackRan /\ ~options.percentValues
    /\ VisIdx = {1, 2, 3}
    /\ \E x \in XValues :
          /\ VisAt(x) = {1, 2, 3}
          /\ GetPoint(seriesList[1].sourceData, x).y = 0 - 1
          /\ GetPoint(seriesList[2].sourceData, x).y = 2
          /\ GetPoint(seriesList[3].sourceData, x).y = 1
          /\ \E n \in 1..Len(seriesList[3].x) :
                /\ seriesList[3].x[n] = x
                /\ seriesList[2].y[n] = Num(1)
                /\ seriesList[3].y[n] = Num(2)

(* C4.  updateData is idempotent: a call made after an earlier call, on    *)
(* the same series and options, leaves the x, labels, y, error_y.array,    *)
(* text and hover of every visible series as they were; and no call        *)
(* changes the key order of a sourceData.                                  *)
OutputArrays(series) ==
    <<series.x, series.labels, series.y, series.error_y, series.text, series.hover>>

C4_Idempotent ==
    [][ /\ \A i \in 1..Len(seriesList) :
              Keys(seriesList'[i].sourceData) = Keys(seriesList[i].sourceData)
        /\ calls >= 1 =>
              \A i \in VisIdx :
                  OutputArrays(seriesList'[i]) = OutputArrays(seriesList[i]) ]_vars

\* A second call has returned on a stacked percent line chart where two
\* visible series share an x.
C4_Witness ==
    /\ calls = 2
    /\ StackRan /\ options.percentValues
    /\ \E x \in XValues : Cardinality(VisAt(x)) >= 2

(* C5.  A series whose visible is not true is left out of every pass: it  *)
(* is still as it arrived (x, y, error_y.array, text, hover, and no        *)
(* yPercent on its points); every percent denominator is the sum of |y|    *)
(* over the visible series only; the x arrays of the visible series hold   *)
(* only x values of visible series; and a stack starts from the first      *)
(* visible series' own values.                                             *)
AsArrived(series) ==
    /\ \A n \in 1..Len(series.sourceData) : series.sourceData[n].yPercent = Undefined
    /\ series = NewSeries(series.name, series.visible, series.sourceData)

C5_HiddenLeftOut ==
    /\ \A i \in (1..Len(seriesList)) \ VisIdx : AsArrived(seriesList[i])
    /\ PercentRan =>
          \A x \in VisX : \A i \in VisAt(x) :
              LET item == GetPoint(seriesList[i].sourceData, x)
              IN  item.yPercent = PercentOf(item.y, VisAbsSum(x))
    /\ Updated =>
          \A i \in VisIdx : \A n \in 1..Len(seriesList[i].x) : seriesList[i].x[n] \in VisX
    /\ StackRan =>
          \A i \in VisIdx :
              (\A j \in VisIdx : i <= j) =>
                  \A n \in 1..Len(seriesList[i].x) :
                      seriesList[i].y[n] = Unstacked(seriesList[i], seriesList[i].x[n])

\* A stacked percent line chart whose first series is hidden, has a point
\* where a visible series has one, and has an x no visible series has.
C5_Witness ==
    /\ StackRan /\ options.percentValues
    /\ 1 \notin VisIdx /\ 2 \in VisIdx
    /\ Len(seriesList[1].sourceData) = 2
    /\ Cardinality(VisX) = 1
    /\ \E x \in VisX : GetPoint(seriesList[1].sourceData, x).y # 0

(* C6.  Whenever the x axis is unified, every visible series has the same  *)
(* x array: it holds every x of the visible series' points once; with      *)
(* sortX off it is in first-seen order (series in caller order, points in  *)
(* each sourceData's insertion order); with sortX on it is non-decreasing. *)

\* Where x is first seen: the visible series and the position in it.
FirstSeries(x) == CHOOSE i \in VisAt(x) : \A j \in VisAt(x) : i <= j
FirstIndex(x)  ==
    CHOOSE n \in 1..Len(seriesList[FirstSeries(x)].sourceData) :
        seriesList[FirstSeries(x)].sourceData[n].x = x
SeenBefore(a, b) ==
    \/ FirstSeries(a) < FirstSeries(b)
    \/ FirstSeries(a) = FirstSeries(b) /\ FirstIndex(a) < FirstIndex(b)

C6_UnifiedDomain ==
    (Updated /\ unified.ran) =>
        \A i \in VisIdx :
            LET xs == seriesList[i].x
            IN  /\ \A j \in VisIdx : seriesList[j].x = xs
                /\ {xs[n] : n \in 1..Len(xs)} = VisX
                /\ \A n, m \in 1..Len(xs) : n # m => xs[n] # xs[m]
                /\ ~options.sortX =>
                      \A n, m \in 1..Len(xs) : n < m => SeenBefore(xs[n], xs[m])
                /\ options.sortX =>
                      \A n, m \in 1..Len(xs) : n < m => xs[n] <= xs[m]

\* sortX on a category axis: x = 2 was seen first, and the unified x is
\* <<1, 2>> for two visible series.
C6_Witness ==
    /\ Updated /\ unified.ran /\ options.sortX /\ ~options.stacking
    /\ Cardinality(VisIdx) >= 2
    /\ VisX = {1, 2} /\ SeenBefore(2, 1)
    /\ \A i \in VisIdx : seriesList[i].x = <<1, 2>>

(* C7.  On a pie chart percent normalization always runs: after updateData *)
(* every point of every visible series has yPercent = y / (the sum of |y|  *)
(* over the visible series' points at its x) * 100, and the text carries   *)
(* that share.                                                             *)
C7_PiePercentAlwaysRuns ==
    (Updated /\ options.globalSeriesType = "pie") =>
        \A x \in VisX : \A i \in VisAt(x) :
            LET item == GetPoint(seriesList[i].sourceData, x)
            IN  /\ item.yPercent = PercentOf(item.y, VisAbsSum(x))
                /\ \A n \in 1..Len(seriesList[i].labels) :
                      seriesList[i].labels[n] = x =>
                          seriesList[i].text[n][1] = formatPercent(MathAbs(item.yPercent))

(* C8.  After updateData, the hover array of every visible series has the  *)
(* content of its text array.                                              *)
C8_HoverMirrorsText ==
    Updated => \A i \in VisIdx : seriesList[i].hover = seriesList[i].text

(* C9.  When the x axis is unified, the pass leaves every visible series   *)
(* with, at every x of the unified domain: the point's y (its yPercent in  *)
(* percent mode) and the point's yError where the series has a point at x; *)
(* and elsewhere the fill value for y (0 when the pass is the one of a     *)
(* stacked line or area chart, null otherwise) and null for the error.     *)
C9_FillValue ==
    LET fill == IF options.stacking /\ options.globalSeriesType \in {"line", "area"}
                THEN Num(0) ELSE Null
    IN  unified.ran =>
          /\ Len(unified.list) = Cardinality(VisIdx)
          /\ \A k \in 1..Len(unified.list) :
                LET s == unified.list[k]
                IN  /\ {s.x[n] : n \in 1..Len(s.x)} = VisX
                    /\ Len(s.y) = Len(s.x) /\ Len(s.error_y) = Len(s.x)
                    /\ s.name = seriesList[CHOOSE i \in VisIdx :
                                    Cardinality({j \in VisIdx : j <= i}) = k].name
                    /\ \A n \in 1..Len(s.x) :
                          IF HasPoint(s.sourceData, s.x[n])
                          THEN LET item == GetPoint(s.sourceData, s.x[n])
                               IN  /\ s.y[n] = IF options.percentValues
                                                THEN item.yPercent ELSE Num(item.y)
                                   /\ s.error_y[n] = item.yError
                          ELSE /\ s.y[n] = fill
                               /\ s.error_y[n] = Null

\* A stacked line chart where a series has no point at an x another series
\* has a point at, with an error value.
C9_Witness ==
    /\ unified.ran /\ options.stacking /\ options.globalSeriesType = "line"
    /\ \E k, l \in 1..Len(unified.list) : \E n \in 1..Len(unified.list[k].x) :
          /\ ~HasPoint(unified.list[k].sourceData, unified.list[k].x[n])
          /\ unified.list[k].y[n] = Num(0)
          /\ unified.list[k].error_y[n] = Null
          /\ HasPoint(unified.list[l].sourceData, unified.list[k].x[n])
          /\ IsNum(unified.list[l].error_y[n])

(* C10.  In VisualizationWidget at most one refresh load started by        *)
(* refreshWidget is in flight at any time.                                 *)
C10_OneRefreshInFlight ==
    Cardinality({load \in loads : load.refresh}) <= 1

===========================================================================
